---- MODULE Spec2Model ----
(***************************************************************************)
(* Tabletop Oracle (src/app.py): the two validators, the three prompt      *)
(* driven analyzers and the Streamlit session that drives them.            *)
(*                                                                         *)
(* Two representations of Python strings are used.                         *)
(*   Str   a short string, as the sequence of its characters               *)
(*         (user inputs, model replies, JSON keys);                        *)
(*   Text  a long string, run-length encoded: a sequence of runs <<c, n>>, *)
(*         n >= 1 copies of character c, adjacent runs differing in c      *)
(*         (extracted PDF text, the rulebook corpus).  The encoding is     *)
(*         exact: every operation below computes the run-length encoding   *)
(*         of what the Python operation returns.                           *)
(***************************************************************************)
EXTENDS Integers, Sequences, FiniteSets, TLC

(***************************************************************************)
(* Python values                                                           *)
(***************************************************************************)
\* Python's None
None == [t |-> "none", v |-> 0]

\* the result of a raised exception inside a try block
Raised == [t |-> "raise", v |-> 0]

JBool(b) == [t |-> "bool", v |-> b]
JNum(n) == [t |-> "num", v |-> n]
JStr(s) == [t |-> "str", v |-> s]
JArr(a) == [t |-> "arr", v |-> a]
\* a dict, as the sequence of its <<key, value>> items in insertion order
JObj(items) == [t |-> "obj", v |-> items]

IsDict(x) == x.t = "obj"

\* bool(x)
Truthy(x) ==
    CASE x.t = "none" -> FALSE
      [] x.t = "bool" -> x.v
      [] x.t = "num" -> x.v # 0
      [] x.t = "str" -> x.v # <<>>
      [] x.t = "text" -> x.v # <<>>
      [] x.t = "arr" -> x.v # <<>>
      [] x.t = "obj" -> x.v # <<>>
      [] OTHER -> FALSE

HasKey(d, k) == \E i \in 1..Len(d.v) : d.v[i][1] = k

\* d.get(k, default)
DictGet(d, k, default) ==
    IF HasKey(d, k)
    THEN d.v[CHOOSE j \in 1..Len(d.v) : d.v[j][1] = k][2]
    ELSE default

\* d[k] = x
DictSet(d, k, x) ==
    IF HasKey(d, k)
    THEN JObj([i \in 1..Len(d.v) |-> IF d.v[i][1] = k THEN <<k, x>> ELSE d.v[i]])
    ELSE JObj(Append(d.v, <<k, x>>))

(***************************************************************************)
(* Str: str.strip, str.split, str.replace, "in"                            *)
(***************************************************************************)
Whitespace == {" ", "\n", "\t", "\r"}

\* s[i:] (i counted from 1)
From(s, i) == SubSeq(s, i, Len(s))

\* whether pat occurs in s at position i
OccursAt(s, pat, i) ==
    /\ i >= 1
    /\ i + Len(pat) - 1 <= Len(s)
    /\ \A j \in 1..Len(pat) : s[i + j - 1] = pat[j]

\* pat in s
StrContains(s, pat) == \E i \in 1..(Len(s) + 1) : OccursAt(s, pat, i)

\* position of the first occurrence of pat in s (pat occurs in s)
FirstAt(s, pat) ==
    CHOOSE i \in 1..(Len(s) + 1) :
        /\ OccursAt(s, pat, i)
        /\ \A j \in 1..(i - 1) : ~OccursAt(s, pat, j)

RECURSIVE Split(_, _)
\* s.split(sep), sep non-empty
Split(s, sep) ==
    IF StrContains(s, sep)
    THEN LET i == FirstAt(s, sep)
         IN <<SubSeq(s, 1, i - 1)>> \o Split(From(s, i + Len(sep)), sep)
    ELSE <<s>>

RECURSIVE Join(_, _)
\* glue.join(parts)
Join(parts, glue) ==
    IF Len(parts) = 0 THEN <<>>
    ELSE IF Len(parts) = 1 THEN parts[1]
    ELSE parts[1] \o glue \o Join(Tail(parts), glue)

\* s.replace(old, new)
Replace(s, old, new) == Join(Split(s, old), new)

RECURSIVE LStrip(_)
LStrip(s) ==
    IF s # <<>> /\ s[1] \in Whitespace THEN LStrip(Tail(s)) ELSE s

RECURSIVE RStrip(_)
RStrip(s) ==
    IF s # <<>> /\ s[Len(s)] \in Whitespace
    THEN RStrip(SubSeq(s, 1, Len(s) - 1))
    ELSE s

\* s.strip()
Strip(s) == RStrip(LStrip(s))

(***************************************************************************)
(* json.loads, for the JSON documents made of objects, arrays, strings     *)
(* without escapes, unsigned integers, true, false and null.  Any other    *)
(* text is a JSONDecodeError (Raised).  JSON null is Python's None.         *)
(***************************************************************************)
Digits == <<"0", "1", "2", "3", "4", "5", "6", "7", "8", "9">>

IsDigit(c) == \E d \in 1..10 : Digits[d] = c

DigitVal(c) == (CHOOSE d \in 1..10 : Digits[d] = c) - 1

Fail == [ok |-> FALSE, val |-> None, pos |-> 0]

Ok(val, pos) == [ok |-> TRUE, val |-> val, pos |-> pos]

RECURSIVE SkipWs(_, _)
SkipWs(s, i) ==
    IF i <= Len(s) /\ s[i] \in Whitespace THEN SkipWs(s, i + 1) ELSE i

RECURSIVE ScanString(_, _)
\* position of the quote closing the string whose content starts at i, or 0
ScanString(s, i) ==
    IF i > Len(s) \/ s[i] = "\\" \/ s[i] = "\n" THEN 0
    ELSE IF s[i] = "\"" THEN i
    ELSE ScanString(s, i + 1)

RECURSIVE ScanNumber(_, _, _)
\* <<value, next position>> of the digits from i on, acc the value so far
ScanNumber(s, i, acc) ==
    IF i <= Len(s) /\ IsDigit(s[i])
    THEN ScanNumber(s, i + 1, 10 * acc + DigitVal(s[i]))
    ELSE <<acc, i>>

ParseString(s, i) ==
    LET e == ScanString(s, i + 1)
    IN IF e = 0 THEN Fail ELSE Ok(JStr(SubSeq(s, i + 1, e - 1)), e + 1)

ParseNumber(s, i) ==
    IF s[i] = "0"
    THEN IF i + 1 <= Len(s) /\ (IsDigit(s[i + 1]) \/ s[i + 1] \in {".", "e", "E"})
         THEN Fail ELSE Ok(JNum(0), i + 1)
    ELSE LET r == ScanNumber(s, i, 0)
         IN IF r[2] <= Len(s) /\ s[r[2]] \in {".", "e", "E"}
            THEN Fail ELSE Ok(JNum(r[1]), r[2])

ParseLiteral(s, i, word, val) ==
    IF OccursAt(s, word, i) THEN Ok(val, i + Len(word)) ELSE Fail

RECURSIVE ParseValue(_, _)
RECURSIVE ParseMembers(_, _, _)
RECURSIVE ParseElems(_, _, _)

\* the JSON value starting at position i (whitespace already skipped)
ParseValue(s, i) ==
    IF i > Len(s) THEN Fail
    ELSE CASE s[i] = "{" ->
                LET j == SkipWs(s, i + 1)
                IN IF j <= Len(s) /\ s[j] = "}"
                   THEN Ok(JObj(<<>>), j + 1)
                   ELSE ParseMembers(s, j, JObj(<<>>))
           [] s[i] = "[" ->
                LET j == SkipWs(s, i + 1)
                IN IF j <= Len(s) /\ s[j] = "]"
                   THEN Ok(JArr(<<>>), j + 1)
                   ELSE ParseElems(s, j, <<>>)
           [] s[i] = "\"" -> ParseString(s, i)
           [] IsDigit(s[i]) -> ParseNumber(s, i)
           [] s[i] = "t" -> ParseLiteral(s, i, <<"t", "r", "u", "e">>, JBool(TRUE))
           [] s[i] = "f" -> ParseLiteral(s, i, <<"f", "a", "l", "s", "e">>, JBool(FALSE))
           [] s[i] = "n" -> ParseLiteral(s, i, <<"n", "u", "l", "l">>, None)
           [] OTHER -> Fail

\* "key": value pairs from position i on, up to the closing brace
ParseMembers(s, i, acc) ==
    IF i > Len(s) \/ s[i] # "\"" THEN Fail
    ELSE LET k == ParseString(s, i)
         IN IF ~k.ok THEN Fail
            ELSE LET c == SkipWs(s, k.pos)
                 IN IF c > Len(s) \/ s[c] # ":" THEN Fail
                    ELSE LET x == ParseValue(s, SkipWs(s, c + 1))
                         IN IF ~x.ok THEN Fail
                            ELSE LET n == SkipWs(s, x.pos)
                                     d == DictSet(acc, k.val.v, x.val)
                                 IN IF n > Len(s) THEN Fail
                                    ELSE IF s[n] = "}" THEN Ok(d, n + 1)
                                    ELSE IF s[n] = ","
                                    THEN ParseMembers(s, SkipWs(s, n + 1), d)
                                    ELSE Fail

\* array elements from position i on, up to the closing bracket
ParseElems(s, i, acc) ==
    LET x == ParseValue(s, i)
    IN IF ~x.ok THEN Fail
       ELSE LET n == SkipWs(s, x.pos)
                a == Append(acc, x.val)
            IN IF n > Len(s) THEN Fail
               ELSE IF s[n] = "]" THEN Ok(JArr(a), n + 1)
               ELSE IF s[n] = ","
               THEN ParseElems(s, SkipWs(s, n + 1), a)
               ELSE Fail

\* json.loads(s): the value, or Raised on a JSONDecodeError
JsonLoads(s) ==
    LET r == ParseValue(s, SkipWs(s, 1))
    IN IF r.ok /\ SkipWs(s, r.pos) > Len(s) THEN r.val ELSE Raised

(***************************************************************************)
(* Text: run-length encoded strings                                        *)
(***************************************************************************)
\* a str held as a Text, as a Python value
PyText(t) == [t |-> "text", v |-> t]

\* a str held as a Str, as a Python value
PyStr(s) == [t |-> "str", v |-> s]

RECURSIVE TLen(_)
\* len(t)
TLen(t) == IF t = <<>> THEN 0 ELSE t[1][2] + TLen(Tail(t))

\* a + b
TCat(a, b) ==
    IF a = <<>> THEN b
    ELSE IF b = <<>> THEN a
    ELSE IF a[Len(a)][1] = b[1][1]
    THEN SubSeq(a, 1, Len(a) - 1)
             \o <<<<b[1][1], a[Len(a)][2] + b[1][2]>>>>
             \o Tail(b)
    ELSE a \o b

RECURSIVE Enc(_)
\* the Text of a Str
Enc(s) == IF s = <<>> THEN <<>> ELSE TCat(<<<<s[1], 1>>>>, Enc(Tail(s)))

\* n copies of character c
Rep(c, n) == IF n = 0 THEN <<>> ELSE <<<<c, n>>>>

RECURSIVE TPrefix(_, _)
\* t[:n]
TPrefix(t, n) ==
    IF t = <<>> \/ n <= 0 THEN <<>>
    ELSE IF t[1][2] <= n
    THEN <<t[1]>> \o TPrefix(Tail(t), n - t[1][2])
    ELSE <<<<t[1][1], n>>>>

UpperAlpha ==
    <<"A", "B", "C", "D", "E", "F", "G", "H", "I", "J", "K", "L", "M",
      "N", "O", "P", "Q", "R", "S", "T", "U", "V", "W", "X", "Y", "Z">>

LowerAlpha ==
    <<"a", "b", "c", "d", "e", "f", "g", "h", "i", "j", "k", "l", "m",
      "n", "o", "p", "q", "r", "s", "t", "u", "v", "w", "x", "y", "z">>

LowerChar(c) ==
    IF \E i \in 1..26 : UpperAlpha[i] = c
    THEN LowerAlpha[CHOOSE i \in 1..26 : UpperAlpha[i] = c]
    ELSE c

RECURSIVE TLower(_)
\* t.lower()
TLower(t) ==
    IF t = <<>> THEN <<>>
    ELSE TCat(<<<<LowerChar(t[1][1]), t[1][2]>>>>, TLower(Tail(t)))

\* k in t, for Texts k and t: the runs of k lie on consecutive runs of t, the
\* inner ones whole, the first and the last as a part of a run of t
TContains(t, k) ==
    LET m == Len(k)
        Within(i, j) == t[i][1] = k[j][1] /\ t[i][2] >= k[j][2]
    IN \/ m = 0
       \/ /\ m = 1
          /\ \E i \in 1..Len(t) : Within(i, 1)
       \/ /\ m >= 2
          /\ \E i \in 1..(Len(t) - m + 1) :
                /\ Within(i, 1)
                /\ Within(i + m - 1, m)
                /\ \A j \in 2..(m - 1) : t[i + j - 1] = k[j]

(***************************************************************************)
(* String literals of the source                                           *)
(***************************************************************************)
\* the character U+0060, written by name
Backtick == "BQ"

S_setup == <<"s", "e", "t", "u", "p">>

S_gameplay == <<"g", "a", "m", "e", "p", "l", "a", "y">>

S_components == <<"c", "o", "m", "p", "o", "n", "e", "n", "t", "s">>

S_turn_order == <<"t", "u", "r", "n", " ", "o", "r", "d", "e", "r">>

S_victory_conditions == <<"v", "i", "c", "t", "o", "r", "y", " ", "c", "o", "n", "d", "i", "t", "i", "o", "n", "s">>

S_rules == <<"r", "u", "l", "e", "s">>

S_player == <<"p", "l", "a", "y", "e", "r">>

S_phase == <<"p", "h", "a", "s", "e">>

S_is_rulebook == <<"i", "s", "_", "r", "u", "l", "e", "b", "o", "o", "k">>

S_reason == <<"r", "e", "a", "s", "o", "n">>

S_is_logical == <<"i", "s", "_", "l", "o", "g", "i", "c", "a", "l">>

S_risk_score == <<"r", "i", "s", "k", "_", "s", "c", "o", "r", "e">>

S_contradictions == <<"c", "o", "n", "t", "r", "a", "d", "i", "c", "t", "i", "o", "n", "s">>

S_impact_scores == <<"i", "m", "p", "a", "c", "t", "_", "s", "c", "o", "r", "e", "s">>

S_suggestions == <<"s", "u", "g", "g", "e", "s", "t", "i", "o", "n", "s">>

S_Unknown == <<"U", "n", "k", "n", "o", "w", "n">>

S_json == <<"j", "s", "o", "n">>

\* "```"
Fence == <<Backtick, Backtick, Backtick>>

\* "```json"
FenceJson == Fence \o S_json

\* a fixed message of the source, kept whole: no code reads its characters
Msg(m) == JStr(<<m>>)

(***************************************************************************)
(* The model service: generate_content either raises or returns a          *)
(* response whose text is a Str.  Each function below takes the outcome of *)
(* the call it may make and returns its value with the calls it issued.    *)
(***************************************************************************)
ServiceError == [t |-> "raise", v |-> <<>>]

Response(text) == [t |-> "str", v |-> text]

Returns(ret, calls) == [ret |-> ret, calls |-> calls]

\* the fence handling shared by analyze, simplify and is_logical_input
FenceStrip(content) ==
    IF StrContains(content, FenceJson)
    THEN Strip(Split(Split(content, FenceJson)[2], Fence)[1])
    ELSE IF StrContains(content, Fence)
    THEN Strip(Split(Split(content, Fence)[2], Fence)[1])
    ELSE content

\* the value of a try block that parses the reply: the parsed reply, or
\* Raised when the call or json.loads raises
Loads(reply) ==
    IF reply.t = "raise" THEN Raised ELSE JsonLoads(FenceStrip(reply.v))

\* the same with the fences removed as RulebookValidator.validate removes them
LoadsReplaced(reply) ==
    IF reply.t = "raise" THEN Raised
    ELSE JsonLoads(Strip(Replace(Replace(reply.v, FenceJson, <<>>), Fence, <<>>)))

\* try: return r / except: return fallback, after the request was issued
TryExcept(r, fallback, request) ==
    IF r.t = "raise" THEN Returns(fallback, <<request>>) ELSE Returns(r, <<request>>)

KEYWORDS ==
    <<S_setup, S_gameplay, S_components, S_turn_order, S_victory_conditions,
      S_rules, S_player, S_phase>>

\* the snippet length of RulebookValidator.validate
SnippetLen == 2000

\* the result for a text that is None or empty
NoReadableText ==
    JObj(<<<<S_is_rulebook, JBool(FALSE)>>,
           <<S_reason, Msg("No readable text found in the tome.")>>>>)

\* a validator that accepts what it could not verify
VerifiedAnyway ==
    JObj(<<<<S_is_rulebook, JBool(TRUE)>>,
           <<S_reason, Msg("The Oracle could not verify this text's nature.")>>>>)

\* the result of the except branch of RulebookValidator.validate
CouldNotVerify ==
    JObj(<<<<S_is_rulebook, JBool(FALSE)>>,
           <<S_reason, Msg("The Oracle could not verify this text's nature.")>>>>)

\* the result for a text with two keywords or more
ValidTerminology ==
    JObj(<<<<S_is_rulebook, JBool(TRUE)>>,
           <<S_reason, Msg("Valid board game terminology detected.")>>>>)

\* a validator without the keyword check, which asks the model about every text
validate_asking(text, file_name, reply) ==
    IF ~Truthy(text) THEN Returns(NoReadableText, <<>>)
    ELSE TryExcept(LoadsReplaced(reply), CouldNotVerify,
                   [tool |-> "RulebookValidator", input |-> PyStr(file_name),
                    rules |-> TPrefix(text.v, SnippetLen)])

\* RulebookValidator.validate(text, file_name, model_name)
validate(text, file_name, reply) ==
    IF ~Truthy(text) THEN Returns(NoReadableText, <<>>)
    ELSE LET text_lower == TLower(text.v)
             found_keywords ==
                 SelectSeq(KEYWORDS, LAMBDA k : TContains(text_lower, Enc(k)))
         IN IF Len(found_keywords) < 2
            THEN TryExcept(LoadsReplaced(reply), CouldNotVerify,
                           [tool |-> "RulebookValidator",
                            input |-> PyStr(file_name),
                            rules |-> TPrefix(text.v, SnippetLen)])
            ELSE Returns(ValidTerminology, <<>>)

\* the minimum stripped length of LogicValidator.is_logical_input
MinLogicalLen == 5

\* the result for an input that is empty or too short
TooShort ==
    JObj(<<<<S_is_logical, JBool(FALSE)>>,
           <<S_reason, Msg("The scroll is too short or empty to be meaningful.")>>>>)

\* a logic validator that refuses what it could not check
IntuitionRefuses ==
    JObj(<<<<S_is_logical, JBool(FALSE)>>,
           <<S_reason, Msg("The Oracle's intuition allows this to pass.")>>>>)

\* the result of the except branch of LogicValidator.is_logical_input
IntuitionAllows ==
    JObj(<<<<S_is_logical, JBool(TRUE)>>,
           <<S_reason, Msg("The Oracle's intuition allows this to pass.")>>>>)

\* a logic validator without the length check
is_logical_input_unchecked(text, context_type, reply) ==
    TryExcept(Loads(reply), IntuitionAllows,
              [tool |-> "LogicValidator", input |-> PyStr(text), rules |-> <<>>])

\* LogicValidator.is_logical_input(text, context_type, model_name)
is_logical_input(text, context_type, reply) ==
    IF text = <<>> \/ Len(Strip(text)) < MinLogicalLen
    THEN Returns(TooShort, <<>>)
    ELSE TryExcept(Loads(reply), IntuitionAllows,
                   [tool |-> "LogicValidator", input |-> PyStr(text),
                    rules |-> <<>>])

\* an Oracle that consults the model on an empty house rule too
analyze_unguarded(game_title, official_rules, house_rule, reply) ==
    TryExcept(Loads(reply), None,
              [tool |-> "HouseRuleOracle", input |-> PyStr(house_rule),
               rules |-> official_rules])

\* HouseRuleOracle.analyze(game_title, official_rules, house_rule, model_name)
analyze(game_title, official_rules, house_rule, reply) ==
    IF house_rule = <<>> THEN Returns(None, <<>>)
    ELSE TryExcept(Loads(reply), None,
                   [tool |-> "HouseRuleOracle", input |-> PyStr(house_rule),
                    rules |-> official_rules])

\* RuleSimplifier.simplify(rulebook_text, game_title, model_name)
simplify(rulebook_text, game_title, reply) ==
    IF rulebook_text = <<>> THEN Returns(None, <<>>)
    ELSE TryExcept(Loads(reply), None,
                   [tool |-> "RuleSimplifier", input |-> PyStr(game_title),
                    rules |-> rulebook_text])

\* RuleMasterAssistant.answer_question(question, rulebook_text, game_title, model_name)
answer_question(question, rulebook_text, game_title, reply) ==
    IF question = <<>> THEN Returns(None, <<>>)
    ELSE TryExcept(IF reply.t = "raise" THEN Raised ELSE PyStr(reply.v), None,
                   [tool |-> "RuleMasterAssistant", input |-> PyStr(question),
                    rules |-> rulebook_text])

(***************************************************************************)
(* Inputs: replies of the model service, free-text inputs, documents       *)
(***************************************************************************)
\* a reply accepting the input
T_LogicYes ==
    <<"{", "\"", "i", "s", "_", "l", "o", "g", "i", "c", "a", "l", "\"", ":",
      " ", "t", "r", "u", "e", ",", " ", "\"", "r", "e", "a", "s", "o", "n",
      "\"", ":", " ", "\"", "o", "k", "\"", "}">>

\* a reply rejecting the input
T_LogicNo ==
    <<"{", "\"", "i", "s", "_", "l", "o", "g", "i", "c", "a", "l", "\"", ":",
      " ", "f", "a", "l", "s", "e", ",", " ", "\"", "r", "e", "a", "s", "o",
      "n", "\"", ":", " ", "\"", "n", "o", "\"", "}">>

\* a reply admitting the document
T_RulebookYes ==
    <<"{", "\"", "i", "s", "_", "r", "u", "l", "e", "b", "o", "o", "k", "\"",
      ":", " ", "t", "r", "u", "e", ",", " ", "\"", "r", "e", "a", "s", "o",
      "n", "\"", ":", " ", "\"", "o", "k", "\"", "}">>

\* a reply refusing the document
T_RulebookNo ==
    <<"{", "\"", "i", "s", "_", "r", "u", "l", "e", "b", "o", "o", "k", "\"",
      ":", " ", "f", "a", "l", "s", "e", ",", " ", "\"", "r", "e", "a", "s",
      "o", "n", "\"", ":", " ", "\"", "n", "o", "\"", "}">>

\* a reply whose verdict is the string "false", not the boolean
T_LogicQuoted ==
    <<"{", "\"", "i", "s", "_", "l", "o", "g", "i", "c", "a", "l", "\"", ":",
      " ", "\"", "f", "a", "l", "s", "e", "\"", "}">>

\* a reply of the Oracle's schema
T_Oracle ==
    <<"{", "\"", "r", "i", "s", "k", "_", "s", "c", "o", "r", "e", "\"", ":",
      " ", "\"", "S", "a", "f", "e", "\"", ",", " ", "\"", "i", "m", "p", "a",
      "c", "t", "_", "s", "c", "o", "r", "e", "s", "\"", ":", " ", "{", "\"",
      "B", "a", "l", "a", "n", "c", "e", "\"", ":", " ", "7", "}", ",", " ",
      "\"", "s", "u", "g", "g", "e", "s", "t", "i", "o", "n", "s", "\"", ":",
      " ", "[", "{", "\"", "r", "u", "l", "e", "\"", ":", " ", "\"", "r", "\"",
      ",", " ", "\"", "e", "x", "p", "l", "a", "n", "a", "t", "i", "o", "n",
      "\"", ":", " ", "\"", "e", "\"", "}", "]", "}">>

\* a reply of the Simplifier's schema
T_Simplified ==
    <<"{", "\"", "f", "i", "r", "s", "t", "_", "g", "a", "m", "e", "\"", ":",
      " ", "\"", "a", "\"", ",", " ", "\"", "a", "d", "v", "a", "n", "c", "e",
      "d", "\"", ":", " ", "\"", "b", "\"", ",", " ", "\"", "e", "x", "p", "e",
      "r", "t", "\"", ":", " ", "\"", "c", "\"", ",", " ", "\"", "s", "u", "m",
      "m", "a", "r", "y", "\"", ":", " ", "\"", "s", "\"", "}">>

\* valid JSON that is not an object
T_List ==
    <<"[", "1", "]">>

\* a reply that is not JSON
T_Prose ==
    <<"S", "o", "r", "r", "y">>

\* a reply cut short
T_Cut ==
    <<"{", "\"", "i", "s", "_", "l", "o", "g", "i", "c", "a", "l", "\"", ":",
      " ", "t", "r">>

\* an answer of the Assistant
T_Answer ==
    <<"Y", "e", "s", ".">>

\* a language tag other than json
T_JsTag ==
    <<"j", "s">>

\* prose before a fenced block
T_Intro ==
    <<"H", "e", "r", "e", ":", "\n">>

\* a free-text input of stripped length 2
I_Hi ==
    <<" ", "h", "i", " ", "\n">>

\* a free-text input of six spaces
I_Spaces ==
    <<" ", " ", " ", " ", " ", " ">>

\* a free-text input of stripped length 6
I_Draw ==
    <<"D", "r", "a", "w", " ", "2">>

\* a free-text input of length 8 and stripped length 4
I_Padded ==
    <<" ", " ", "D", "r", "a", "w", " ", " ">>

\* a free-text input of stripped length 5
I_Five ==
    <<" ", "D", "r", "a", "w", "1">>

\* a second free-text input
I_Skip ==
    <<"S", "k", "i", "p", " ", "t", "u", "r", "n">>

\* file names
N_a ==
    <<"a", ".", "p", "d", "f">>

N_b ==
    <<"b", ".", "p", "d", "f">>

\* document texts
X_One ==
    <<"T", "h", "e", " ", "r", "u", "l", "e", "s", "\n">>

X_Twice ==
    <<"r", "u", "l", "e", "s", ",", " ", "r", "u", "l", "e", "s", "\n">>

X_Two ==
    <<"G", "a", "m", "e", " ", "R", "U", "L", "E", "S", ",", " ", "2", " ",
      "P", "l", "a", "y", "e", "r", "s", "\n">>

X_Phrase ==
    <<"T", "u", "r", "n", " ", "O", "r", "d", "e", "r", "\n", "V", "i", "c",
      "t", "o", "r", "y", " ", "c", "o", "n", "d", "i", "t", "i", "o", "n",
      "s", "\n">>

X_Recipe ==
    <<"M", "i", "x", " ", "f", "l", "o", "u", "r", "\n">>

X_Setup ==
    <<" ", "s", "e", "t", "u", "p", "\n">>

S_FileHeader ==
    <<"\n", "F", "I", "L", "E", ":", " ">>

\* the ways a reply carries a JSON text j: as it is, in a fenced block tagged
\* json, in a fenced block without a tag, in a fenced block with another
\* tag, and in a json block after a line of prose
Wraps == {"raw", "json", "plain", "tag", "intro"}

Wrap(j, w) ==
    CASE w = "raw" -> j
      [] w = "json" -> FenceJson \o <<"\n">> \o j \o <<"\n">> \o Fence
      [] w = "plain" -> Fence \o <<"\n">> \o j \o <<"\n">> \o Fence
      [] w = "tag" -> Fence \o T_JsTag \o <<"\n">> \o j \o <<"\n">> \o Fence
      [] w = "intro" -> T_Intro \o FenceJson \o <<"\n">> \o j \o <<"\n">> \o Fence

\* the outcomes of one model call whose reply carries one of the texts js
Outcomes(js) ==
    {[j |-> j, wrap |-> w, reply |-> Response(Wrap(j, w))] : j \in js, w \in Wraps}
        \cup {[j |-> <<>>, wrap |-> "raise", reply |-> ServiceError]}

\* what extract_text_from_pdf returns: None, or the text of the pages
ExtractedTexts ==
    {None, PyText(<<>>), PyText(Enc(<<"\n">>)), PyText(Enc(X_One)),
     PyText(Enc(X_Twice)), PyText(Enc(X_Two)), PyText(Enc(X_Phrase)),
     PyText(Enc(X_Recipe)),
     PyText(TCat(Rep("x", SnippetLen - 1), Enc(X_Setup))),
     PyText(TCat(Enc(X_One), Rep("x", SnippetLen)))}

FreeTexts == {<<>>, I_Hi, I_Spaces, I_Draw, I_Padded, I_Five}

(***************************************************************************)
(* The Streamlit session.  Every user action runs the script from the top: *)
(* the sidebar loop, then the page of the chosen tool.                     *)
(***************************************************************************)
VARIABLES
    uploaded_files,  \* the file uploader's files, in upload order
    tool_choice,     \* the radio button's tool
    session_state,   \* st.session_state
    calls,           \* the model calls the last user action issued
    shown,           \* the messages the last user action left on screen
    exception,       \* whether an exception escaped the last script run
    event,           \* the last user action
    submitted,       \* the questions asked with a validated tome uploaded
    origin           \* per file key, the document its stored validation was
                     \* computed from (history)

appVars ==
    <<uploaded_files, tool_choice, session_state, calls, shown, exception,
      event, submitted, origin>>

\* the most files the uploader holds
MaxFiles == 2

\* the most questions asked in a session
MaxQuestions == 2

\* a key that is not in st.session_state
Absent == [t |-> "absent", v |-> 0]

\* the text_input's default
game_title == <<>>

OracleCeiling == 1000000

SimplifierCeiling == 500000

AssistantCeiling == 800000

\* the documents a user holds: a rulebook by its keywords, a text with one
\* keyword, and a recipe whose file has the name and the size of the second
DocText(doc) ==
    CASE doc = "A" -> PyText(TCat(Enc(X_Two), Rep("a", 600000)))
      [] doc = "B" -> PyText(TCat(Enc(X_One), Rep("b", 450000)))
      [] doc = "C" -> PyText(TCat(Enc(X_Recipe), Rep("c", 450000)))

Files ==
    {[name |-> N_a, size |-> 600022, doc |-> "A"],
     [name |-> N_b, size |-> 450010, doc |-> "B"],
     [name |-> N_b, size |-> 450010, doc |-> "C"]}

\* extract_text_from_pdf(uf.getvalue(), uf.name)
extract_text_from_pdf(uf) == DocText(uf.doc)

\* f"valid_{uf.name}_{uf.size}"
FileKey(uf) == <<"valid_", uf.name, "_", uf.size>>

FileKeys == {FileKey(uf) : uf \in Files}

\* the outcomes of a model call in a session: the service fails, or replies
\* with one of the texts js
Replies(js) ==
    {[j |-> j, wrap |-> "raw", reply |-> Response(j)] : j \in js}
        \cup {[j |-> <<>>, wrap |-> "raise", reply |-> ServiceError]}

ValidatorOutcomes == Replies({T_RulebookYes, T_RulebookNo, T_List})

LogicOutcomes == Replies({T_LogicYes, T_LogicNo, T_LogicQuoted, T_List})

OracleOutcomes == Replies({T_Oracle, T_Prose, T_List})

SimplifierOutcomes == Replies({T_Simplified, T_Prose, T_List})

AssistantOutcomes == Replies({T_Answer, <<>>})

HouseRules == {<<>>, I_Hi, I_Draw}

Questions == {I_Hi, I_Draw, I_Skip}

\* a sidebar that validates and keeps nothing
StoreNothing(acc, file_key, r) == [acc EXCEPT !.calls = @ \o r.calls]

\* st.session_state[file_key] = RulebookValidator.validate(...), and the
\* call it issued
StoreValidation(acc, file_key, r) ==
    [acc EXCEPT !.valid[file_key] = r.ret, !.calls = @ \o r.calls]

\* if file_key not in st.session_state: validate the file and keep the result
Validated(acc, uf, i, outs) ==
    IF acc.valid[FileKey(uf)].t # "absent" THEN acc
    ELSE StoreValidation(acc, FileKey(uf),
                         validate(extract_text_from_pdf(uf), uf.name, outs[i].reply))

\* a sidebar that hands every uploaded file to the tools
Sorted_all(acc, uf, v_res) == [acc EXCEPT !.valid_files = Append(@, uf)]

\* v_res.get("is_rulebook") decides whether the file joins valid_files; it
\* raises on a stored validation that is no dict
Sorted(acc, uf, v_res) ==
    IF ~IsDict(v_res) THEN [acc EXCEPT !.exception = TRUE]
    ELSE IF Truthy(DictGet(v_res, S_is_rulebook, None))
    THEN [acc EXCEPT !.valid_files = Append(@, uf)]
    ELSE acc

\* one pass of the loop body over an uploaded file
SidebarStep(acc, uf) == Sorted(acc, uf, acc.valid[FileKey(uf)])

RECURSIVE SidebarLoop(_, _, _, _)
\* the Tome Authentication loop from file i on; acc holds the validation
\* cache, the calls issued, valid_files and whether v_res.get raised
SidebarLoop(acc, files, i, outs) ==
    IF i > Len(files) \/ acc.exception THEN acc
    ELSE SidebarLoop(SidebarStep(Validated(acc, files[i], i, outs), files[i]),
                     files, i + 1, outs)

\* the sidebar: the cache, the calls, and the files handed to the tools
Sidebar(ss, files, outs) ==
    SidebarLoop([valid |-> ss.valid, calls |-> <<>>, exception |-> FALSE,
                 valid_files |-> <<>>], files, 1, outs)

\* the uploaded files the sidebar has no cached validation for
Uncached(ss, files) ==
    {i \in 1..Len(files) : ss.valid[FileKey(files[i])].t = "absent"}

RECURSIVE CombinedFrom(_, _)
\* combined_text, from the files left to add
CombinedFrom(combined_text, files) ==
    IF files = <<>> THEN combined_text
    ELSE LET uf == files[1]
             text == extract_text_from_pdf(uf)
         IN CombinedFrom(
                IF Truthy(text)
                THEN TCat(TCat(combined_text,
                               Enc(S_FileHeader \o uf.name \o <<"\n">>)),
                          text.v)
                ELSE combined_text,
                Tail(files))

\* combined_text after the loop over the validated files
CombinedText(files) == CombinedFrom(<<>>, files)

\* a page that sends the whole of combined_text
Untruncated(combined_text, n) == combined_text

\* if len(combined_text) > n: combined_text = combined_text[:n]
Truncate(combined_text, n) ==
    IF TLen(combined_text) > n THEN TPrefix(combined_text, n) ELSE combined_text

\* whether x can be iterated
Iterable(x) == x.t \in {"str", "arr", "obj"}

\* whether rendering the Oracle's result raises: res.get, "Safe" in
\* risk_level, impact_scores.get, the loops over contradictions and
\* suggestions, sugg.get
OracleRenderRaises(res) ==
    \/ ~IsDict(res)
    \/ /\ IsDict(res)
       /\ LET risk_level == DictGet(res, S_risk_score, PyStr(S_Unknown))
              impact_scores == DictGet(res, S_impact_scores, JObj(<<>>))
              contradictions == DictGet(res, S_contradictions, JArr(<<>>))
              suggestions == DictGet(res, S_suggestions, JArr(<<>>))
          IN \/ ~Iterable(risk_level)
             \/ ~IsDict(impact_scores)
             \/ ~Iterable(contradictions)
             \/ ~Iterable(suggestions)
             \/ suggestions.t \in {"str", "obj"} /\ suggestions.v # <<>>
             \/ /\ suggestions.t = "arr"
                /\ \E k \in 1..Len(suggestions.v) : ~IsDict(suggestions.v[k])

Rendered(ss, msgs, raised) == [ss |-> ss, shown |-> msgs, exception |-> raised]

\* the Oracle page below its button
RenderOracle(ss) ==
    IF ss.oracle_result.t = "absent" THEN Rendered(ss, {}, FALSE)
    ELSE IF ss.oracle_result.t = "none"
    THEN Rendered(ss, {"The Oracle has gone silent."}, FALSE)
    ELSE IF OracleRenderRaises(ss.oracle_result) THEN Rendered(ss, {}, TRUE)
    ELSE Rendered(ss, {"Divination Results"}, FALSE)

\* the Simplifier page below its button
RenderSimplifier(ss) ==
    IF Truthy(ss.simplification_result)
    THEN IF ss.simplification_result.t = "none"
         THEN Rendered(ss, {"The Scribe failed to simplify the rules."}, FALSE)
         ELSE IF ~IsDict(ss.simplification_result) THEN Rendered(ss, {}, TRUE)
         ELSE Rendered(ss, {"The Scribe's Overview"}, FALSE)
    ELSE Rendered(ss, {}, FALSE)

\* a log that takes the new pair at its head
QAPrepend(assistant_qa, user_question, answer) ==
    JArr(<<<<user_question, answer>>>> \o assistant_qa.v)

\* st.session_state.assistant_qa.append({"question": ..., "answer": ...})
QAAppend(assistant_qa, user_question, answer) ==
    JArr(Append(assistant_qa.v, <<user_question, answer>>))

\* the Assistant page above its chat input
RenderAssistant(ss) ==
    LET opened == IF ss.assistant_qa.t = "absent"
                  THEN [ss EXCEPT !.assistant_qa = JArr(<<>>)] ELSE ss
    IN Rendered(opened, IF opened.assistant_qa.v = <<>> THEN {} ELSE {"Q&A"}, FALSE)

\* the session after a user action
Done(ss, issued, msgs, raised, ev) ==
    /\ session_state' = ss
    /\ calls' = issued
    /\ shown' = msgs
    /\ exception' = raised
    /\ event' = ev

\* the page of a tool, drawn with no button or chat input triggered
RenderPage(ss, tool) ==
    CASE tool = "oracle" -> RenderOracle(ss)
      [] tool = "simplifier" -> RenderSimplifier(ss)
      [] tool = "assistant" -> RenderAssistant(ss)

\* a script run no button or chat input triggered
Rerun(ss, files, tool, issued, outs, ev) ==
    \E sb \in {Sidebar(ss, files, outs)} :
    \E ss1 \in {[ss EXCEPT !.valid = sb.valid]} :
        IF sb.exception THEN Done(ss1, issued \o sb.calls, {}, TRUE, ev)
        ELSE \E pr \in {RenderPage(ss1, tool)} :
                Done(pr.ss, issued \o sb.calls, pr.shown, pr.exception, ev)

\* whether the last run raised in the sidebar, before any page was drawn
SidebarRaised ==
    \E i \in 1..Len(uploaded_files) :
        LET v_res == session_state.valid[FileKey(uploaded_files[i])]
        IN v_res.t # "absent" /\ ~IsDict(v_res)

\* the sidebar validates, for each key it stores a validation for, the first
\* of the files that has the key
Validates(files) ==
    origin' =
        [key \in FileKeys |->
            IF session_state.valid[key] = Absent /\ session_state'.valid[key] # Absent
            THEN files[CHOOSE i \in 1..Len(files) :
                          /\ FileKey(files[i]) = key
                          /\ \A k \in 1..(i - 1) : FileKey(files[k]) # key].doc
            ELSE origin[key]]

\* the user adds a file to the uploader
Upload(uf) ==
    /\ Len(uploaded_files) < MaxFiles
    /\ \A i \in 1..Len(uploaded_files) : uploaded_files[i] # uf
    /\ uploaded_files' = Append(uploaded_files, uf)
    /\ \E outs \in [Uncached(session_state, uploaded_files') -> ValidatorOutcomes] :
          Rerun(session_state, uploaded_files', tool_choice, <<>>, outs,
                [kind |-> "upload", input |-> <<>>])
    /\ Validates(uploaded_files')
    /\ UNCHANGED <<tool_choice, submitted>>

\* the user removes the i-th file from the uploader
Remove(i) ==
    /\ i \in 1..Len(uploaded_files)
    /\ uploaded_files' = SubSeq(uploaded_files, 1, i - 1)
                             \o SubSeq(uploaded_files, i + 1, Len(uploaded_files))
    /\ \E outs \in [Uncached(session_state, uploaded_files') -> ValidatorOutcomes] :
          Rerun(session_state, uploaded_files', tool_choice, <<>>, outs,
                [kind |-> "remove", input |-> <<>>])
    /\ Validates(uploaded_files')
    /\ UNCHANGED <<tool_choice, submitted>>

\* whether no tool has stored a result yet
NoResultYet ==
    /\ session_state.oracle_result.t = "absent"
    /\ session_state.simplification_result.t = "none"
    /\ IF session_state.assistant_qa.t = "absent" THEN TRUE
       ELSE session_state.assistant_qa.v = <<>>
    /\ submitted = 0

\* the user picks a tool; the sessions explored keep to the tool they have
\* stored a result of
ChooseTool(tool) ==
    /\ tool # tool_choice
    /\ NoResultYet
    /\ tool_choice' = tool
    /\ \E outs \in [Uncached(session_state, uploaded_files) -> ValidatorOutcomes] :
          Rerun(session_state, uploaded_files, tool, <<>>, outs,
                [kind |-> "tool", input |-> <<>>])
    /\ Validates(uploaded_files)
    /\ UNCHANGED <<uploaded_files, submitted>>

(***************************************************************************)
(* The functions one call at a time: a call is drawn, then made.           *)
(***************************************************************************)
VARIABLES call, result

Pending == [ret |-> None, calls |-> <<>>, raw |-> None, done |-> FALSE]

Returned(r, raw) == [ret |-> r.ret, calls |-> r.calls, raw |-> raw.ret, done |-> TRUE]

Calls ==
    {[fn |-> "validate", text |-> t, rules |-> <<>>, out |-> o] :
        t \in ExtractedTexts,
        o \in Outcomes({T_RulebookYes, T_RulebookNo, T_Prose, T_List})}
    \cup
    {[fn |-> "is_logical_input", text |-> PyStr(t), rules |-> <<>>, out |-> o] :
        t \in FreeTexts,
        o \in Outcomes({T_LogicYes, T_LogicNo, T_Cut, T_List})}
    \cup
    {[fn |-> "analyze", text |-> PyStr(t), rules |-> r, out |-> o] :
        t \in {<<>>, I_Draw}, r \in {<<>>, Enc(X_Two)},
        o \in Outcomes({T_Oracle, T_Prose, T_List})}
    \cup
    {[fn |-> "simplify", text |-> PyStr(<<>>), rules |-> r, out |-> o] :
        r \in {<<>>, Enc(X_Two)},
        o \in Outcomes({T_Simplified, T_Prose, T_List})}
    \cup
    {[fn |-> "answer_question", text |-> PyStr(t), rules |-> r, out |-> o] :
        t \in {<<>>, I_Skip}, r \in {<<>>, Enc(X_Two)},
        o \in Outcomes({T_Answer, <<>>})}

Call_validate ==
    /\ call.fn = "validate" /\ ~result.done
    /\ result' = Returned(validate(call.text, N_a, call.out.reply),
                          validate(call.text, N_a, Response(call.out.j)))
    /\ UNCHANGED <<call, appVars>>

Call_is_logical_input ==
    /\ call.fn = "is_logical_input" /\ ~result.done
    /\ result' = Returned(is_logical_input(call.text.v, "house rule", call.out.reply),
                          is_logical_input(call.text.v, "house rule", Response(call.out.j)))
    /\ UNCHANGED <<call, appVars>>

Call_analyze ==
    /\ call.fn = "analyze" /\ ~result.done
    /\ result' = Returned(analyze(<<>>, call.rules, call.text.v, call.out.reply),
                          analyze(<<>>, call.rules, call.text.v, Response(call.out.j)))
    /\ UNCHANGED <<call, appVars>>

Call_simplify ==
    /\ call.fn = "simplify" /\ ~result.done
    /\ result' = Returned(simplify(call.rules, <<>>, call.out.reply),
                          simplify(call.rules, <<>>, Response(call.out.j)))
    /\ UNCHANGED <<call, appVars>>

Call_answer_question ==
    /\ call.fn = "answer_question" /\ ~result.done
    /\ result' = Returned(answer_question(call.text.v, call.rules, <<>>, call.out.reply),
                          answer_question(call.text.v, call.rules, <<>>, Response(call.out.j)))
    /\ UNCHANGED <<call, appVars>>

\* a user action that got logic_res from LogicValidator.is_logical_input
Gated(ev, logic_res) ==
    [kind |-> ev.kind, input |-> ev.input, logic |-> logic_res]

\* "Consult the Oracle" is clicked with house_rule_input in the text area
Consult(house_rule_input) ==
    /\ tool_choice = "oracle"
    /\ ~SidebarRaised
    /\ ~session_state.processing
    /\ \E ev \in {[kind |-> "consult", input |-> house_rule_input]} :
       \* on_click=set_processing
       \E ss0 \in {[session_state EXCEPT !.processing = TRUE]} :
       \E idle \in {[session_state EXCEPT !.processing = FALSE]} :
       \E sb \in {Sidebar(ss0, uploaded_files, <<>>)} :
          IF sb.valid_files = <<>>
          THEN \E pr \in {RenderOracle(idle)} :
                  Done(idle, <<>>,
                       {"Please upload at least one ancient tome"} \cup pr.shown,
                       pr.exception, ev)
          ELSE IF Strip(house_rule_input) = <<>>
          THEN \E pr \in {RenderOracle(idle)} :
                  Done(idle, <<>>, {"Rule cannot be empty."} \cup pr.shown,
                       pr.exception, ev)
          ELSE \E lo \in LogicOutcomes :
               \E lr \in {is_logical_input(house_rule_input, "house rule", lo.reply)} :
               \E logic_res \in {lr.ret} :
                  IF ~IsDict(logic_res)
                  THEN Done(ss0, lr.calls, {}, TRUE, Gated(ev, logic_res))
                  ELSE IF ~Truthy(DictGet(logic_res, S_is_logical, None))
                  THEN \* st.stop()
                       Done(idle, lr.calls, {"The Oracle rejects this rule"},
                            FALSE, Gated(ev, logic_res))
                  ELSE \E ao \in OracleOutcomes :
                       \E combined_text \in
                              {Truncate(CombinedText(sb.valid_files), OracleCeiling)} :
                       \E ar \in {analyze(game_title, combined_text,
                                          house_rule_input, ao.reply)} :
                          \* st.rerun()
                          Rerun([idle EXCEPT !.oracle_result = ar.ret],
                                uploaded_files, tool_choice,
                                lr.calls \o ar.calls, <<>>, Gated(ev, logic_res))
    /\ UNCHANGED <<uploaded_files, tool_choice, submitted, origin>>

\* "Scribe Simplified Rules" is clicked
Scribe ==
    /\ tool_choice = "simplifier"
    /\ ~SidebarRaised
    /\ ~session_state.processing
    /\ \E ev \in {[kind |-> "scribe", input |-> <<>>]} :
       \* on_click=set_processing
       \E ss0 \in {[session_state EXCEPT !.processing = TRUE]} :
       \E idle \in {[session_state EXCEPT !.processing = FALSE]} :
       \E sb \in {Sidebar(ss0, uploaded_files, <<>>)} :
          IF sb.valid_files = <<>>
          THEN \E pr \in {RenderSimplifier(idle)} :
                  Done(idle, <<>>,
                       {"Please upload at least one ancient tome"} \cup pr.shown,
                       pr.exception, ev)
          ELSE \E so \in SimplifierOutcomes :
               \E combined_text \in
                      {Truncate(CombinedText(sb.valid_files), SimplifierCeiling)} :
               \E sr \in {simplify(combined_text, game_title, so.reply)} :
                  \* st.rerun()
                  Rerun([idle EXCEPT !.simplification_result = sr.ret],
                        uploaded_files, tool_choice, sr.calls, <<>>, ev)
    /\ UNCHANGED <<uploaded_files, tool_choice, submitted, origin>>

\* user_question is sent from the chat input
Ask(user_question) ==
    /\ tool_choice = "assistant"
    /\ ~SidebarRaised
    /\ submitted < MaxQuestions
    /\ \E ev \in {[kind |-> "ask", input |-> user_question]} :
       \E sb \in {Sidebar(session_state, uploaded_files, <<>>)} :
       \E top \in {RenderAssistant(session_state)} :
          IF sb.valid_files = <<>>
          THEN /\ Done(top.ss, <<>>,
                       {"Please upload at least one ancient tome"} \cup top.shown,
                       FALSE, ev)
               /\ submitted' = submitted
          ELSE /\ submitted' = submitted + 1
               /\ \E lo \in LogicOutcomes :
                  \E lr \in {is_logical_input(user_question,
                                              "question about game rules", lo.reply)} :
                  \E logic_res \in {lr.ret} :
                     IF ~IsDict(logic_res)
                     THEN Done(top.ss, lr.calls, top.shown, TRUE, Gated(ev, logic_res))
                     ELSE IF ~Truthy(DictGet(logic_res, S_is_logical, None))
                     THEN \* st.stop()
                          Done(top.ss, lr.calls,
                               {"The Sage only discusses game rules."} \cup top.shown,
                               FALSE, Gated(ev, logic_res))
                     ELSE \E ao \in AssistantOutcomes :
                          \E combined_text \in
                                 {Truncate(CombinedText(sb.valid_files),
                                           AssistantCeiling)} :
                          \E ar \in {answer_question(user_question, combined_text,
                                                     game_title, ao.reply)} :
                          \E answer \in {ar.ret} :
                             IF Truthy(answer)
                             THEN \* assistant_qa.append, st.rerun()
                                  Rerun([top.ss EXCEPT !.assistant_qa =
                                            QAAppend(@, user_question, answer.v)],
                                        uploaded_files, tool_choice,
                                        lr.calls \o ar.calls, <<>>, Gated(ev, logic_res))
                             ELSE Done(top.ss, lr.calls \o ar.calls,
                                       {"The Sage could not provide an answer."}
                                           \cup top.shown,
                                       FALSE, Gated(ev, logic_res))
    /\ UNCHANGED <<uploaded_files, tool_choice, origin>>

vars == <<uploaded_files, tool_choice, session_state, calls, shown, exception,
          event, submitted, origin, call, result>>

\* the session after the first run of the script
AppInit ==
    /\ uploaded_files = <<>>
    /\ tool_choice = "oracle"
    /\ session_state =
           [valid |-> [k \in FileKeys |-> Absent],
            house_rule |-> <<>>,
            processing |-> FALSE,
            simplification_result |-> None,
            oracle_result |-> Absent,
            assistant_qa |-> Absent]
    /\ calls = <<>>
    /\ shown = {}
    /\ exception = FALSE
    /\ event = [kind |-> "open", input |-> <<>>]
    /\ submitted = 0
    /\ origin = [key \in FileKeys |-> "none"]

Init == AppInit /\ call = [fn |-> "none"] /\ result = Pending

Next ==
    \/ \E uf \in Files : Upload(uf) /\ UNCHANGED <<call, result>>
    \/ \E i \in 1..MaxFiles : Remove(i) /\ UNCHANGED <<call, result>>
    \/ \E tool \in {"oracle", "simplifier", "assistant"} :
          ChooseTool(tool) /\ UNCHANGED <<call, result>>
    \/ \E r \in HouseRules : Consult(r) /\ UNCHANGED <<call, result>>
    \/ Scribe /\ UNCHANGED <<call, result>>
    \/ \E q \in Questions : Ask(q) /\ UNCHANGED <<call, result>>

\* the session
Spec == Init /\ [][Next]_vars

InitCalls == AppInit /\ call \in Calls /\ result = Pending

NextCalls ==
    \/ Call_validate
    \/ Call_is_logical_input
    \/ Call_analyze
    \/ Call_simplify
    \/ Call_answer_question

\* the functions, one call at a time
SpecCalls == InitCalls /\ [][NextCalls]_vars

(***************************************************************************)
(* Properties of the functions, checked under SpecCalls.                   *)
(***************************************************************************)
\* how many keywords of the fixed set the lower-cased text holds
KeywordsIn(text) ==
    Cardinality({k \in 1..Len(KEYWORDS) :
                    TContains(TLower(text.v), Enc(KEYWORDS[k]))})

\* the length of s without its leading and trailing whitespace
TrimmedLen(s) ==
    LET inked == {i \in 1..Len(s) : s[i] \notin Whitespace}
    IN IF inked = {} THEN 0
       ELSE (CHOOSE i \in inked : \A k \in inked : k <= i)
                - (CHOOSE i \in inked : \A k \in inked : i <= k) + 1

RECURSIVE IsTPrefix(_, _)
\* whether the text p is the beginning of the text t
IsTPrefix(p, t) ==
    \/ p = <<>>
    \/ /\ t # <<>>
       /\ p[1][1] = t[1][1]
       /\ IF Len(p) = 1 THEN p[1][2] <= t[1][2]
          ELSE p[1][2] = t[1][2] /\ IsTPrefix(Tail(p), Tail(t))

\* the replies that are no JSON, however they are fenced
NotJson == {T_Prose, T_Cut}

\* the replies that are a JSON record
JsonRecords ==
    {T_LogicYes, T_LogicNo, T_RulebookYes, T_RulebookNo, T_Oracle, T_Simplified}

\* the call to validate is made on a non-empty text with fewer than two keywords
FewKeywords ==
    /\ call.fn = "validate" /\ result.done
    /\ Truthy(call.text)
    /\ KeywordsIn(call.text) < 2

\* the model call raised, or what is left of its reply once the fence
\* markers are removed is no JSON
VerificationFailed ==
    \/ call.out.wrap = "raise"
    \/ call.out.j \in NotJson
    \/ call.out.wrap \in {"tag", "intro"}

\* C1: for a non-empty text with fewer than 2 keywords, when the model call
\* raises or its reply cannot be parsed as JSON, validate returns a result
\* whose is_rulebook is false, after one model call
C1_FailClosed ==
    (FewKeywords /\ VerificationFailed)
        => /\ IsDict(result.ret)
           /\ DictGet(result.ret, S_is_rulebook, None) = JBool(FALSE)
           /\ Len(result.calls) = 1

\* a document with one keyword was refused because the model call raised
C1_Witness ==
    /\ FewKeywords
    /\ call.text = PyText(Enc(X_One))
    /\ call.out.wrap = "raise"
    /\ result.ret = CouldNotVerify

\* the call to is_logical_input is made on a text of trimmed length 5 or more
LongEnough ==
    /\ call.fn = "is_logical_input" /\ result.done
    /\ TrimmedLen(call.text.v) >= MinLogicalLen

\* C2: for a text of trimmed length 5 or more, when the model call raises or
\* its reply cannot be parsed, is_logical_input returns is_logical = true
C2_FailOpen ==
    (LongEnough /\ (call.out.wrap = "raise" \/ call.out.j \in NotJson))
        => /\ IsDict(result.ret)
           /\ DictGet(result.ret, S_is_logical, None) = JBool(TRUE)

\* a house rule passed although the reply to its check was cut short
C2_Witness ==
    /\ LongEnough
    /\ call.out.j = T_Cut
    /\ call.out.wrap = "json"
    /\ result.ret = IntuitionAllows
    /\ Len(result.calls) = 1

\* C3: for a text that is empty or of trimmed length below 5,
\* is_logical_input returns is_logical = false and issues no model call
C3_ShortRejected ==
    (/\ call.fn = "is_logical_input" /\ result.done
     /\ TrimmedLen(call.text.v) < MinLogicalLen)
        => /\ IsDict(result.ret)
           /\ DictGet(result.ret, S_is_logical, None) = JBool(FALSE)
           /\ result.calls = <<>>

\* a text of more than five characters, fewer once trimmed, was refused
\* although the model would have accepted it
C3_Witness ==
    /\ call.fn = "is_logical_input" /\ result.done
    /\ Len(call.text.v) > MinLogicalLen
    /\ TrimmedLen(call.text.v) \in 1..(MinLogicalLen - 1)
    /\ call.out.j = T_LogicYes
    /\ result.ret = TooShort

\* C4: a text whose lower-cased form holds 2 keywords or more is accepted
\* with no model call; the model is called only on fewer than 2 keywords,
\* once, with the first 2000 characters of the text
C4_KeywordShortCircuit ==
    (call.fn = "validate" /\ result.done /\ Truthy(call.text))
        => /\ KeywordsIn(call.text) >= 2
               => /\ result.calls = <<>>
                  /\ DictGet(result.ret, S_is_rulebook, None) = JBool(TRUE)
           /\ result.calls # <<>>
               => /\ KeywordsIn(call.text) < 2
                  /\ Len(result.calls) = 1
                  /\ IsTPrefix(result.calls[1].rules, call.text.v)
                  /\ TLen(result.calls[1].rules) =
                         IF TLen(call.text.v) < SnippetLen
                         THEN TLen(call.text.v) ELSE SnippetLen

\* a text with two keywords was accepted with no model call, although the
\* model would have refused it
C4_Witness ==
    /\ call.fn = "validate" /\ result.done
    /\ call.text = PyText(Enc(X_Two))
    /\ call.out.j = T_RulebookNo
    /\ result.ret = ValidTerminology
    /\ result.calls = <<>>

\* the call is to a parser of JSON replies, with an input it does not turn
\* away, and the model replied with a JSON record in a fenced code block
FencedRecord ==
    /\ result.done
    /\ \/ call.fn = "analyze" /\ call.text.v # <<>>
       \/ call.fn = "simplify" /\ call.rules # <<>>
       \/ call.fn = "is_logical_input" /\ TrimmedLen(call.text.v) >= MinLogicalLen
    /\ call.out.j \in JsonRecords
    /\ call.out.wrap \in {"json", "plain", "tag"}

\* C6: analyze, simplify and is_logical_input return for a JSON record in a
\* fenced code block, with a language tag (any tag) or with none, what they
\* return for the record alone
C6_FenceRoundTrip == FencedRecord => result.ret = result.raw

\* C6, for the fences the code knows: analyze, simplify and is_logical_input
\* return for a JSON record in a fenced code block tagged json, or with no
\* tag, what they return for the record alone
C6_JsonFenceRoundTrip ==
    (FencedRecord /\ call.out.wrap \in {"json", "plain"})
        => /\ result.ret = result.raw
           /\ IsDict(result.ret)

\* the emptiness each analyzer tests on its required input
RequiredInputEmpty ==
    \/ call.fn = "analyze" /\ call.text.v = <<>>
    \/ call.fn = "simplify" /\ call.rules = <<>>
    \/ call.fn = "answer_question" /\ call.text.v = <<>>

\* C7: analyze with an empty house rule, simplify with an empty rulebook
\* text and answer_question with an empty question return None and issue no
\* model call
C7_EmptyInputNoOp ==
    (result.done /\ RequiredInputEmpty)
        => result.ret = None /\ result.calls = <<>>

\* the Oracle returned None for an empty house rule over a rulebook, although
\* the model would have replied with a record
C7_Witness ==
    /\ result.done
    /\ call.fn = "analyze"
    /\ call.text.v = <<>>
    /\ call.rules # <<>>
    /\ call.out.j = T_Oracle
    /\ result.ret = None
    /\ result.calls = <<>>

\* a refusal by the model became an acceptance because the fence around it
\* carried the tag js
C6_Witness ==
    /\ FencedRecord
    /\ call.fn = "is_logical_input"
    /\ call.out.j = T_LogicNo
    /\ call.out.wrap = "tag"
    /\ DictGet(result.raw, S_is_logical, None) = JBool(FALSE)
    /\ result.ret = IntuitionAllows

(***************************************************************************)
(* Properties of the session, checked under Spec.                          *)
(***************************************************************************)
\* whether the stored validation of an uploaded file accepts it
Accepted(uf) ==
    LET v_res == session_state.valid[FileKey(uf)]
    IN IsDict(v_res) /\ Truthy(DictGet(v_res, S_is_rulebook, None))

\* the validated uploaded documents, in upload order
ValidFiles == SelectSeq(uploaded_files, Accepted)

\* the Assistant's log of (question, answer) pairs
Log ==
    IF session_state.assistant_qa.t = "arr" THEN session_state.assistant_qa.v
    ELSE <<>>

\* the warning of a tool used with no validated document
UploadWarning == "Please upload at least one ancient tome"

\* the user actions that use a tool
ToolActions == {"consult", "scribe", "ask"}

\* the ceiling of the tool a model call belongs to
Ceiling(tool) ==
    CASE tool = "HouseRuleOracle" -> OracleCeiling
      [] tool = "RuleSimplifier" -> SimplifierCeiling
      [] tool = "RuleMasterAssistant" -> AssistantCeiling

\* C5: whatever the model calls return, no exception escapes a user action,
\* and the results analyze and simplify leave in the session are None or a
\* record
C5_NoExceptionEscapes ==
    /\ ~exception
    /\ session_state.oracle_result.t \in {"absent", "none", "obj"}
    /\ session_state.simplification_result.t \in {"none", "obj"}

\* the Oracle replied with a JSON list, analyze returned the list, and
\* drawing it raised
C5_Witness ==
    /\ event.kind = "consult"
    /\ exception
    /\ session_state.oracle_result.t = "arr"
    /\ Len(calls) = 2

\* C8: a tool used while no uploaded document is validated warns of it,
\* issues no model call, and leaves the stored results and the log as they
\* were
C8_UploadPrecondition ==
    [][(event'.kind \in ToolActions /\ ValidFiles = <<>>)
          => /\ UploadWarning \in shown'
             /\ calls' = <<>>
             /\ session_state'.oracle_result = session_state.oracle_result
             /\ session_state'.simplification_result =
                    session_state.simplification_result
             /\ Log' = Log]_vars

\* the Oracle, holding an earlier result, was consulted once more after its
\* only rulebook was gone and a refused document was all that was left
C8_Witness ==
    /\ event.kind = "consult"
    /\ TrimmedLen(event.input) >= MinLogicalLen
    /\ uploaded_files # <<>>
    /\ ValidFiles = <<>>
    /\ IsDict(session_state.oracle_result)
    /\ UploadWarning \in shown
    /\ calls = <<>>

C10_Truncation ==
    \A k \in 1..Len(calls) :
        calls[k].tool \in {"HouseRuleOracle", "RuleSimplifier", "RuleMasterAssistant"}
            => LET N == Ceiling(calls[k].tool)
                   corpus == CombinedText(ValidFiles)
                   sent == calls[k].rules
               IN /\ TLen(corpus) <= N => sent = corpus
                  /\ TLen(corpus) > N => TLen(sent) = N /\ IsTPrefix(sent, corpus)
                  /\ Truncate(sent, N) = sent
                  /\ Truncate(Truncate(corpus, N), N) = Truncate(corpus, N)

\* a corpus of two rulebooks, longer than the Oracle's ceiling, reached the
\* Oracle as its first 1,000,000 characters
C10_Witness ==
    /\ event.kind = "consult"
    /\ Len(ValidFiles) = 2
    /\ TLen(CombinedText(ValidFiles)) > OracleCeiling
    /\ Len(calls) = 2
    /\ calls[2].tool = "HouseRuleOracle"
    /\ TLen(calls[2].rules) = OracleCeiling

\* whether the last user action called the model on behalf of the tool
Called(tool) == \E k \in 1..Len(calls) : calls[k].tool = tool

\* C11: whenever the analyzer call of a user action returns None, the run
\* that follows the action shows the failure message of the tool
C11_NullSurfaced ==
    [][/\ (/\ event'.kind = "consult"
           /\ Called("HouseRuleOracle")'
           /\ session_state'.oracle_result = None)
              => "The Oracle has gone silent." \in shown'
       /\ (/\ event'.kind = "scribe"
           /\ Called("RuleSimplifier")'
           /\ session_state'.simplification_result = None)
              => "The Scribe failed to simplify the rules." \in shown'
       /\ (/\ event'.kind = "ask"
           /\ Called("RuleMasterAssistant")'
           /\ Log' = Log)
              => "The Sage could not provide an answer." \in shown']_vars

\* C11, for the Oracle and the Assistant: whenever the analyzer call of a
\* click on Consult or of a question returns None, the run that follows shows
\* the failure message of the tool
C11_OracleAssistantSurfaced ==
    [][/\ (/\ event'.kind = "consult"
           /\ Called("HouseRuleOracle")'
           /\ session_state'.oracle_result = None)
              => "The Oracle has gone silent." \in shown'
       /\ (/\ event'.kind = "ask"
           /\ Called("RuleMasterAssistant")'
           /\ Log' = Log)
              => "The Sage could not provide an answer." \in shown']_vars

\* the Scribe's model call failed, simplify returned None, and the page
\* drawn after the rerun shows nothing
C11_Witness ==
    /\ event.kind = "scribe"
    /\ Called("RuleSimplifier")
    /\ session_state.simplification_result = None
    /\ ~exception
    /\ shown = {}

\* the file keys a validation is stored for
Stored == {key \in FileKeys : session_state.valid[key] # Absent}

\* how many calls to the validator's model the last user action issued
ValidatorCalls ==
    Cardinality({k \in 1..Len(calls) : calls[k].tool = "RulebookValidator"})

\* C12: a validation stored for a file key is never changed or removed, and
\* a step calls the validator's model at most once for each key it stores a
\* validation for, hence at most once per key in a session
C12_ValidationMemoized ==
    [][/\ \A key \in Stored : session_state'.valid[key] = session_state.valid[key]
       /\ ValidatorCalls' <= Cardinality(Stored' \ Stored)]_vars

\* a file was uploaded with no call to the validator, its key holding the
\* refusal a failed model call had left there before
C12_Witness ==
    /\ event.kind = "upload"
    /\ calls = <<>>
    /\ Len(uploaded_files) = 1
    /\ session_state.valid[FileKey(uploaded_files[1])] = CouldNotVerify

\* whether validate, applied to the text of the file itself, accepted it, or
\* would accept it whatever the model replies
OwnTextValid(uf) ==
    \/ origin[FileKey(uf)] = uf.doc /\ Accepted(uf)
    \/ /\ Truthy(extract_text_from_pdf(uf))
       /\ KeywordsIn(extract_text_from_pdf(uf)) >= 2

\* the tools of the three analyzers
Analyzers == {"HouseRuleOracle", "RuleSimplifier", "RuleMasterAssistant"}

\* C13: the rulebook text of a call to an analyzer is made, in upload order,
\* of the texts of the uploaded documents whose own text validate accepted,
\* and of no other document, two documents of one name and size included
C13_CorpusOnlyValidated ==
    \A k \in 1..Len(calls) :
        calls[k].tool \in Analyzers
            => /\ \A i \in 1..Len(ValidFiles) : OwnTextValid(ValidFiles[i])
               /\ calls[k].rules =
                      Truncate(CombinedText(SelectSeq(uploaded_files, OwnTextValid)),
                               Ceiling(calls[k].tool))

\* the Oracle was consulted over the text of a recipe that no validator ever
\* saw: its file has the name and the size of a document validated before
C13_Witness ==
    /\ event.kind = "consult"
    /\ Len(uploaded_files) = 1
    /\ uploaded_files[1].doc = "C"
    /\ origin[FileKey(uploaded_files[1])] = "B"
    /\ Len(calls) = 2
    /\ calls[2].tool = "HouseRuleOracle"
    /\ calls[2].rules = CombinedText(uploaded_files)

\* the is_logical of what the logic validator returned for the last user
\* action; Absent when it was not consulted or returned no dict
Verdict ==
    IF "logic" \in DOMAIN event
    THEN IF IsDict(event.logic) THEN DictGet(event.logic, S_is_logical, None)
         ELSE Absent
    ELSE Absent

\* the last user action called the model for the Oracle or for the Assistant
\* after it had called it for the logic validator about the same input
AnalyzerAfterLogic ==
    \E k \in 1..Len(calls) :
        /\ calls[k].tool \in {"HouseRuleOracle", "RuleMasterAssistant"}
        /\ \E j \in 1..(k - 1) :
              /\ calls[j].tool = "LogicValidator"
              /\ calls[j].input = PyStr(event.input)

\* C14: a click on Consult or a question calls the analyzer's model only
\* after is_logical_input has returned is_logical = true for it; otherwise
\* no analyzer call is made and the Oracle's result and the log stay as they
\* were
C14_LogicGate ==
    [][event'.kind \in {"consult", "ask"}
          => IF Verdict' = JBool(TRUE)
             THEN Called("HouseRuleOracle")' \/ Called("RuleMasterAssistant")'
                      => AnalyzerAfterLogic'
             ELSE /\ ~Called("HouseRuleOracle")'
                  /\ ~Called("RuleMasterAssistant")'
                  /\ session_state'.oracle_result = session_state.oracle_result
                  /\ Log' = Log]_vars

\* C14, as the pages test it: a click on Consult or a question calls the
\* analyzer's model only after is_logical_input has returned a dict whose
\* is_logical is true in Python's sense (True, a non-empty string, a number
\* other than 0); otherwise no analyzer call is made and the Oracle's result
\* and the log stay as they were
C14_TruthyGate ==
    [][event'.kind \in {"consult", "ask"}
          => IF Verdict' # Absent /\ Truthy(Verdict')
             THEN Called("HouseRuleOracle")' \/ Called("RuleMasterAssistant")'
                      => AnalyzerAfterLogic'
             ELSE /\ ~Called("HouseRuleOracle")'
                  /\ ~Called("RuleMasterAssistant")'
                  /\ session_state'.oracle_result = session_state.oracle_result
                  /\ Log' = Log]_vars

\* the logic validator returned the string "false" as its is_logical, and
\* the Oracle was consulted all the same
C14_Witness ==
    /\ event.kind = "consult"
    /\ Verdict = JStr(<<"f", "a", "l", "s", "e">>)
    /\ AnalyzerAfterLogic
    /\ Called("HouseRuleOracle")
    /\ IsDict(session_state.oracle_result)

\* C15: st.session_state.processing, set when the Oracle's or the
\* Simplifier's button is clicked, is False again once the click has been
\* handled, on every path, so the buttons are never left disabled
C15_ProcessingReset == ~session_state.processing

\* C15, for the clicks handled to their end: a click on Consult or Scribe
\* whose handling raises nothing before the flag is reset leaves
\* st.session_state.processing False
C15_ResetUnlessRaised ==
    [][(/\ event'.kind \in {"consult", "scribe"}
        /\ ~exception' \/ Called("HouseRuleOracle")' \/ Verdict' # Absent)
          => ~session_state'.processing]_vars

\* the logic validator's reply to a click on Consult was a JSON list,
\* logic_res.get raised, and the Simplifier, chosen afterwards, has its
\* button disabled
C15_Witness ==
    /\ session_state.processing
    /\ tool_choice = "simplifier"
    /\ event.kind = "tool"
    /\ ~exception
    /\ ~ENABLED Scribe
====
